---- MODULE Spec2Model ----
(***************************************************************************)
(* Verification model of kwimage: greedy non-maximum suppression (py_nms), *)
(* the Detections.non_max_supression entry point and the Mask format       *)
(* conversions.                                                            *)
(*                                                                         *)
(* Numbers.  Box coordinates are integers.  A score is an integer rank     *)
(* (only the order of scores is ever used).  thresh is a rational <<n, d>> *)
(* with d > 0.  An overlap is a rational [n, d] with d > 0, compared with  *)
(* thresh by cross multiplication.  Indices into the box array are 0-based *)
(* as in the source; order and keep are sequences of such indices.         *)
(***************************************************************************)
EXTENDS Integers, Sequences, FiniteSets, TLC

VARIABLES
    \* one call of py_nms
    np_tlbr, np_scores, thresh, bias, order, keep, visited, pc,
    \* one call of Detections.non_max_supression: the receiver's data, the
    \* arguments, the dict objects on the heap, the local daqkw, the result
    self_data, call, heap, daqkw, ret, dpc,
    \* one run of the toformat doctest: the mask, its two conversions, the
    \* two decoded images
    mask, mask1, mask2, img1, img2, mpc,
    \* calls of Mask methods: the operand masks, the calls still to make, the
    \* last call with its operands and what it returned, and how the numpy
    \* build treats a list of arrays of different shapes
    items, prog, res, npbuild,
    \* one call of _prob_to_dets: the probability map, the threshold, the
    \* least number of detections, the flags array, the detections
    probs, min_score, num_min, prob_flags, dets, ppc,
    \* the sort kind of the numpy build, shared by every call
    sortkind

nmsvars == <<np_tlbr, np_scores, thresh, bias, order, keep, visited, pc>>
detvars == <<self_data, call, heap, daqkw, ret, dpc>>
maskvars == <<mask, mask1, mask2, img1, img2, mpc>>
opvars == <<items, prog, res, npbuild>>
probvars == <<probs, min_score, num_min, prob_flags, dets, ppc>>
vars == <<nmsvars, detvars, maskvars, opvars, probvars, sortkind>>

(***************************************************************************)
(* Bounds of the explored inputs.                                          *)
(***************************************************************************)
MaxCoord == 1
MaxBoxes == 2

(***************************************************************************)
(* Generic helpers.                                                        *)
(***************************************************************************)
Max(a, b) == IF a >= b THEN a ELSE b
Min(a, b) == IF a <= b THEN a ELSE b
Range(s) == {s[k] : k \in DOMAIN s}
Reverse(s) == [k \in 1..Len(s) |-> s[Len(s) + 1 - k]]
Abs(a) == IF a < 0 THEN -a ELSE a
SetMax(S) == CHOOSE a \in S : \A b \in S : a >= b
SetMin(S) == CHOOSE a \in S : \A b \in S : a <= b

RECURSIVE SortedSeq(_)
SortedSeq(S) ==
    IF S = {} THEN <<>>
    ELSE LET m == CHOOSE a \in S : \A b \in S : a <= b
         IN  <<m>> \o SortedSeq(S \ {m})

\* The rows of array a (a function on 0..N-1) at the indices I, in index order,
\* as array[I] gives them for a sorted index array.
Take(a, I) == LET q == SortedSeq(I) IN [k \in 0..(Len(q) - 1) |-> a[q[k + 1]]]

(***************************************************************************)
(* np.nan_to_num replaces +inf by the largest finite float.  HUGE stands   *)
(* for that value: it is larger than every overlap and every thresh the    *)
(* model can form.                                                         *)
(***************************************************************************)
HUGE == 1000000

(***************************************************************************)
(* py_nms, lines 33-38: the box columns and the areas.                     *)
(***************************************************************************)
x1(t, i) == t[i][1]
y1(t, i) == t[i][2]
x2(t, i) == t[i][3]
y2(t, i) == t[i][4]

areas(t, b, i) == (x2(t, i) - x1(t, i) + b) * (y2(t, i) - y1(t, i) + b)

(***************************************************************************)
(* py_nms, line 40: np_scores.argsort()[::-1].  numpy's default sort kind  *)
(* is not stable, so the order of equal scores in the ascending sort is    *)
(* fixed by the build: "stable" keeps equal scores in ascending index      *)
(* order, "reversed" is the other extreme.  The result is then reversed.   *)
(***************************************************************************)
Before(s, kind, a, b) ==
    \/ s[a] < s[b]
    \/ /\ s[a] = s[b]
       /\ IF kind = "stable" THEN a < b ELSE a > b

RECURSIVE SortBy(_, _, _)
SortBy(s, kind, S) ==
    IF S = {} THEN <<>>
    ELSE LET m == CHOOSE a \in S : \A b \in S \ {a} : Before(s, kind, a, b)
         IN  <<m>> \o SortBy(s, kind, S \ {m})

argsort(s, kind) == SortBy(s, kind, DOMAIN s)

argsort_noreverse(s, kind) == argsort(s, kind)

argsort_desc(s, kind) == Reverse(argsort(s, kind))

(***************************************************************************)
(* py_nms, lines 49-58: the overlap of the kept box i with a remaining box *)
(* j.  Division by zero gives nan (0/0) or inf (x/0), and nan_to_num maps  *)
(* nan to 0 and inf to the largest finite float.                           *)
(***************************************************************************)
inter(t, b, i, j) ==
    LET xx1 == Max(x1(t, i), x1(t, j))
        yy1 == Max(y1(t, i), y1(t, j))
        xx2 == Min(x2(t, i), x2(t, j))
        yy2 == Min(y2(t, i), y2(t, j))
        w == Max(0, xx2 - xx1 + b)
        h == Max(0, yy2 - yy1 + b)
    IN  w * h

union_term(t, b, i, j) == areas(t, b, i) + areas(t, b, j) - inter(t, b, i, j)

nan_to_num_nonan(n, d) ==
    IF d = 0 THEN [n |-> HUGE, d |-> 1]
    ELSE IF d < 0 THEN [n |-> -n, d |-> -d]
    ELSE [n |-> n, d |-> d]

nan_to_num(n, d) ==
    IF d = 0
    THEN IF n = 0 THEN [n |-> 0, d |-> 1]
         ELSE IF n > 0 THEN [n |-> HUGE, d |-> 1]
         ELSE [n |-> -HUGE, d |-> 1]
    ELSE IF d < 0 THEN [n |-> -n, d |-> -d]
    ELSE [n |-> n, d |-> d]

ovr(t, b, i, j) == nan_to_num(inter(t, b, i, j), union_term(t, b, i, j))

(***************************************************************************)
(* py_nms, line 66: flags = ovr <= thresh.                                 *)
(***************************************************************************)
flags_strict(o, th) == o.n * th[2] < th[1] * o.d

flags_reversed(o, th) == o.n * th[2] >= th[1] * o.d

flags(o, th) == o.n * th[2] <= th[1] * o.d

(***************************************************************************)
(* py_nms, lines 48-69: the candidates that survive one iteration.         *)
(***************************************************************************)
next_order_all(t, b, th, ord) ==
    SelectSeq(ord, LAMBDA j : flags(ovr(t, b, ord[1], j), th))

next_order(t, b, th, ord) ==
    LET i == ord[1]
        js_remain == Tail(ord)
    IN  SelectSeq(js_remain, LAMBDA j : flags(ovr(t, b, i, j), th))

(***************************************************************************)
(* py_nms as a function of its arguments: the loop of lines 44-69 run to   *)
(* completion from a candidate order.                                      *)
(***************************************************************************)
RECURSIVE nms_loop(_, _, _, _)
nms_loop(t, b, th, ord) ==
    IF Len(ord) = 0 THEN <<>>
    ELSE <<ord[1]>> \o nms_loop(t, b, th, next_order(t, b, th, ord))

py_nms(t, s, th, b, kind) == nms_loop(t, b, th, argsort_desc(s, kind))

(***************************************************************************)
(* The inputs of py_nms that are explored.  Boxes are tlbr rows            *)
(* <<x1, y1, x2, y2>> on a strip one pixel high: x1 <= x2 range over the   *)
(* coordinates, the y span is upright or inverted (a row with y2 < y1 is   *)
(* legal input, and has area zero under bias 1).  The rows of the doctest, *)
(* the second of which has x2 < x1 and y2 < y1, add boxes that overlap     *)
(* partly on both axes.  Scores are dense ranks: every weak order of N     *)
(* scores is the order of one such vector.                                 *)
(***************************************************************************)
Coords == 0..MaxCoord
YSpans == {<<0, 1>>, <<1, 0>>}
BoxPool ==
    {<<a, ys[1], c, ys[2]>> : <<a, c>> \in {p \in Coords \X Coords : p[1] <= p[2]},
                              ys \in YSpans}

ScoreVectors(N) ==
    {s \in [0..(N - 1) -> 0..(N - 1)] :
        \A v \in Range(s) : \A u \in 0..v : u \in Range(s)}

\* The sort kind only shows when two scores are equal.
HasTies(s) == \E a \in DOMAIN s : \E b \in DOMAIN s : a # b /\ s[a] = s[b]

ThreshSet == {<<0, 1>>, <<1, 2>>}
BiasSet == {0, 1}
SortKinds == {"stable", "reversed"}

(***************************************************************************)
(* py_nms doctest, lines 17-28.  linspace(0, 1, 7)[k] = k / 6 is the       *)
(* rank k.                                                                 *)
(***************************************************************************)
DoctestTlbr ==
    [k \in 0..6 |->
        CASE k = 0 -> <<0, 0, 100, 100>>
          [] k = 1 -> <<100, 100, 10, 10>>
          [] k = 2 -> <<10, 10, 100, 100>>
          [] k = 3 -> <<50, 50, 100, 100>>
          [] k = 4 -> <<100, 100, 150, 101>>
          [] k = 5 -> <<120, 100, 180, 101>>
          [] k = 6 -> <<150, 100, 200, 101>>]
DoctestScores == [k \in 0..6 |-> k]
DoctestThresh == <<1, 10>>

(***************************************************************************)
(* State machine of one py_nms call.                                       *)
(*   pc = "start" : arguments bound, nothing executed                      *)
(*   pc = "loop"  : the while test of line 44 passed, at line 45           *)
(*   pc = "done"  : the while test failed, keep returned (line 71)         *)
(* visited is a history variable: visited[k] is the candidate order at the *)
(* start of iteration k, so visited[k][1] is the box kept by iteration k.  *)
(***************************************************************************)
NmsInputs ==
    \/ /\ \E N \in 0..MaxBoxes :
             /\ np_tlbr \in [0..(N - 1) -> BoxPool]
             /\ np_scores \in ScoreVectors(N)
       /\ thresh \in ThreshSet
    \/ /\ \E I \in SUBSET (DOMAIN DoctestTlbr) :
             /\ np_tlbr = Take(DoctestTlbr, I)
             /\ np_scores = Take(DoctestScores, I)
       /\ thresh \in ThreshSet \cup {DoctestThresh}

\* No mask is being converted.
NoMask == [format |-> "none"]

NoImage == [shape |-> <<0, 0>>, order |-> "C", buf |-> <<>>]

MaskIdle ==
    /\ mask = NoMask
    /\ mask1 = NoMask
    /\ mask2 = NoMask
    /\ img1 = NoImage
    /\ img2 = NoImage
    /\ mpc = "idle"

\* No Mask method is being called.
NoResult == [op |-> "none"]

OpIdle ==
    /\ items = <<>>
    /\ prog = <<>>
    /\ res = NoResult
    /\ npbuild = "error"

\* No call of _prob_to_dets is in progress.
ProbIdle ==
    /\ probs = NoImage
    /\ min_score = 0
    /\ num_min = 0
    /\ prob_flags = NoImage
    /\ dets = <<>>
    /\ ppc = "idle"

\* No Detections call is in progress.
DetIdle ==
    /\ self_data = [boxes |-> <<>>, scores |-> <<>>, class_idxs |-> <<>>]
    /\ call = [thresh |-> <<0, 1>>, perclass |-> FALSE, impl |-> "auto", daq |-> "False"]
    /\ heap = <<>>
    /\ daqkw = 0
    /\ ret = <<>>
    /\ dpc = "idle"

NmsInit ==
    /\ NmsInputs
    /\ DetIdle
    /\ MaskIdle
    /\ OpIdle
    /\ ProbIdle
    /\ bias \in BiasSet
    /\ sortkind \in (IF HasTies(np_scores) THEN SortKinds ELSE {"stable"})
    /\ order = <<>>
    /\ keep = <<>>
    /\ visited = <<>>
    /\ pc = "start"

\* The loop test of line 44: an empty candidate list ends the loop, and line
\* 71 returns keep.
after_test(ord) == IF Len(ord) = 0 THEN "done" ELSE "loop"

\* lines 33-44: the columns, the areas, the candidate order, the first test
NmsSetup ==
    /\ pc = "start"
    /\ order' = argsort_desc(np_scores, sortkind)
    /\ keep' = <<>>
    /\ pc' = after_test(order')
    /\ UNCHANGED <<np_tlbr, np_scores, thresh, bias, sortkind, visited, detvars, maskvars, opvars, probvars>>

\* lines 45-69 and the next test of line 44: one iteration of the while loop
NmsIter ==
    /\ pc = "loop"
    /\ keep' = Append(keep, order[1])
    /\ order' = next_order(np_tlbr, bias, thresh, order)
    /\ visited' = Append(visited, order)
    /\ pc' = after_test(order')
    /\ UNCHANGED <<np_tlbr, np_scores, thresh, bias, sortkind, detvars, maskvars, opvars, probvars>>

NmsNext == NmsSetup \/ NmsIter

SpecNms == NmsInit /\ [][NmsNext]_vars

(***************************************************************************)
(* Vocabulary of the py_nms properties.                                    *)
(***************************************************************************)
NBoxes == Cardinality(DOMAIN np_tlbr)

\* The candidates left by iteration k.
Remaining(k) == IF k < Len(visited) THEN visited[k + 1] ELSE order

\* inter / union strictly above th, stated on the exact quotient; a quotient
\* with a zero or negative denominator is never above a thresh >= 0.
IoUAbove(t, b, i, j, th) ==
    /\ union_term(t, b, i, j) > 0
    /\ inter(t, b, i, j) * th[2] > th[1] * union_term(t, b, i, j)

IoUEquals(t, b, i, j, th) ==
    /\ union_term(t, b, i, j) > 0
    /\ inter(t, b, i, j) * th[2] = th[1] * union_term(t, b, i, j)

IsDoctestCall ==
    /\ np_tlbr = DoctestTlbr
    /\ np_scores = DoctestScores
    /\ thresh = DoctestThresh
    /\ bias = 0

\* C1: py_nms on the seven doctest boxes with scores linspace(0, 1, 7),
\* thresh = 0.1 and bias = 0 returns a keep list that sorts to [1, 3, 4, 6].
C1_DoctestKeep ==
    (pc = "done" /\ IsDoctestCall) => SortedSeq(Range(keep)) = <<1, 3, 4, 6>> /\ Len(keep) = 4

C1_Witness == pc = "done" /\ IsDoctestCall /\ Len(keep) = 4

\* C2: an iteration discards a remaining box j exactly when its IoU with the
\* kept box is strictly greater than thresh; a box whose IoU equals thresh
\* stays a candidate for the later iterations.
C2_StrictSuppression ==
    \A k \in 1..Len(visited) :
        \A p \in 2..Len(visited[k]) :
            LET i == visited[k][1]
                j == visited[k][p]
            IN  (j \in Range(Remaining(k))) <=> ~IoUAbove(np_tlbr, bias, i, j, thresh)

C2_Witness ==
    /\ thresh[1] > 0
    /\ \E k \in 1..Len(visited) :
          \E p \in 2..Len(visited[k]) :
              /\ IoUEquals(np_tlbr, bias, visited[k][1], visited[k][p], thresh)
              /\ visited[k][p] \in Range(Remaining(k))

PairwiseDisjoint ==
    \A i \in DOMAIN np_tlbr : \A j \in DOMAIN np_tlbr :
        i # j => inter(np_tlbr, 0, i, j) = 0

\* C3: with bias = 0 and thresh = 0, boxes whose pairwise intersection area
\* is zero are all returned.
C3_DisjointAllKept ==
    (pc = "done" /\ bias = 0 /\ thresh[1] = 0 /\ PairwiseDisjoint)
        => Range(keep) = DOMAIN np_tlbr

C3_Witness ==
    /\ pc = "done" /\ bias = 0 /\ thresh[1] = 0 /\ PairwiseDisjoint
    /\ NBoxes >= 3
    /\ \A i \in DOMAIN np_tlbr : areas(np_tlbr, 0, i) > 0
    /\ Range(keep) = DOMAIN np_tlbr

\* The candidate order at the head of the loop, before the first iteration.
AtLoopEntry == pc # "start" /\ visited = <<>>

\* C4 as claimed: candidates are visited in descending score order and, among
\* equal scores, the lower original index is visited first (a stable sort on
\* descending score).
C4_StableDescending ==
    AtLoopEntry =>
        \A a \in 1..Len(order) : \A b \in 1..Len(order) :
            a < b =>
                \/ np_scores[order[a]] > np_scores[order[b]]
                \/ np_scores[order[a]] = np_scores[order[b]] /\ order[a] < order[b]

\* C4 as amended: candidates are visited in descending score order; equal
\* scores come in the reverse of the ascending argsort, so under a stable
\* ascending sort the higher original index is visited first.
C4_DescendingReversedTies ==
    AtLoopEntry =>
        /\ Range(order) = DOMAIN np_scores
        /\ Len(order) = NBoxes
        /\ \A a \in 1..Len(order) : \A b \in 1..Len(order) :
              a < b =>
                  /\ np_scores[order[a]] >= np_scores[order[b]]
                  /\ (sortkind = "stable" /\ np_scores[order[a]] = np_scores[order[b]])
                        => order[a] > order[b]

C4_Witness ==
    /\ AtLoopEntry
    /\ sortkind = "stable"
    /\ Len(order) >= 2
    /\ np_scores[order[1]] = np_scores[order[2]]
    /\ order[1] > order[2]

\* C5: whenever areas[i] + areas[j] - inter is zero for the kept box i and a
\* remaining box j, the overlap compared with thresh is 0 and j is not
\* discarded by i.
C5_ZeroUnionIsZeroOverlap ==
    \A k \in 1..Len(visited) :
        \A p \in 2..Len(visited[k]) :
            LET i == visited[k][1]
                j == visited[k][p]
            IN  union_term(np_tlbr, bias, i, j) = 0 =>
                    /\ ovr(np_tlbr, bias, i, j) = [n |-> 0, d |-> 1]
                    /\ j \in Range(Remaining(k))

C5_Witness ==
    \E k \in 1..Len(visited) :
        \E p \in 2..Len(visited[k]) :
            /\ union_term(np_tlbr, bias, visited[k][1], visited[k][p]) = 0
            /\ areas(np_tlbr, bias, visited[k][1]) # 0
            /\ visited[k][p] \in Range(Remaining(k))

(***************************************************************************)
(* kwimage.non_max_supression(tlbr, scores, thresh, classes, impl): the    *)
(* greedy suppression of section 4.4 with the default bias 0; with class   *)
(* ids it partitions the boxes by class, runs the suppression on each      *)
(* class alone and concatenates the kept indices.  Every impl computes the *)
(* same suppression.                                                       *)
(***************************************************************************)
default_bias == 0

\* Greedy suppression on the boxes at the indices I alone, as a list of
\* indices into the whole array.
nms_on(t, s, th, kind, I) ==
    LET q == SortedSeq(I)
        kept == py_nms(Take(t, I), Take(s, I), th, default_bias, kind)
    IN  [k \in 1..Len(kept) |-> q[kept[k] + 1]]

RECURSIVE nms_per_class(_, _, _, _, _, _)
nms_per_class(t, s, th, c, kind, cids) ==
    IF Len(cids) = 0 THEN <<>>
    ELSE nms_on(t, s, th, kind, {i \in DOMAIN c : c[i] = Head(cids)})
            \o nms_per_class(t, s, th, c, kind, Tail(cids))

\* classes is <<>> for None, <<c>> for the array c of class ids.
non_max_supression(t, s, th, classes, kind) ==
    IF Len(classes) = 0
    THEN py_nms(t, s, th, default_bias, kind)
    ELSE nms_per_class(t, s, th, classes[1], kind, SortedSeq(Range(classes[1])))

(***************************************************************************)
(* kwimage.daq_spatial_nms(tlbr, scores, diameter, thresh, max_depth,      *)
(* stop_size, impl), section 4.5.  A partition of at most stop_size boxes, *)
(* or one at depth max_depth, is settled by the greedy suppression.  Any   *)
(* other is cut at the middle of its extent into quadrants (a box belongs  *)
(* to the quadrant of its top-left corner), each quadrant is settled on    *)
(* its own, and the greedy suppression is run again over those kept boxes  *)
(* whose top-left corner lies within diameter of a cut line.  Twice the    *)
(* cut coordinate is used, to stay in the integers.                        *)
(***************************************************************************)
RECURSIVE daq_recurse(_, _, _, _, _, _)
daq_recurse(t, s, kw, kind, I, depth) ==
    IF Cardinality(I) <= kw["stop_size"] \/ depth >= kw["max_depth"]
    THEN Range(nms_on(t, s, kw["thresh"], kind, I))
    ELSE LET cx2 == SetMin({x1(t, i) : i \in I}) + SetMax({x2(t, i) : i \in I})
             cy2 == SetMin({y1(t, i) : i \in I}) + SetMax({y2(t, i) : i \in I})
             quadrant(a, b) ==
                 {i \in I : ((2 * x1(t, i) < cx2) = a) /\ ((2 * y1(t, i) < cy2) = b)}
             local == UNION {daq_recurse(t, s, kw, kind, quadrant(a, b), depth + 1) :
                                a \in BOOLEAN, b \in BOOLEAN}
             near == {i \in local :
                         \/ Abs(2 * x1(t, i) - cx2) < 2 * kw["diameter"]
                         \/ Abs(2 * y1(t, i) - cy2) < 2 * kw["diameter"]}
         IN  (local \ near) \cup Range(nms_on(t, s, kw["thresh"], kind, near))

daq_spatial_nms(t, s, kw, kind) ==
    SortedSeq(daq_recurse(t, s, kw, kind, DOMAIN t, 0))

(***************************************************************************)
(* Python dict objects.  A dict is a function from its keys; heap[r] is    *)
(* the dict object with reference r, and a new object takes the next       *)
(* reference.  The caller's daq dict, when there is one, is heap[1].       *)
(***************************************************************************)
dict_get(d, k, default) == IF k \in DOMAIN d THEN d[k] ELSE default

dict_set(h, r, k, v) == [h EXCEPT ![r] = (k :> v) @@ h[r]]

dict_alias(h, r) == [ref |-> r, heap |-> h]

\* daq.copy(): a new dict object with the same items
dict_copy(h, r) == [ref |-> Len(h) + 1, heap |-> Append(h, h[r])]

\* {}: a new empty dict object
dict_new(h) == [ref |-> Len(h) + 1, heap |-> Append(h, <<>>)]

(***************************************************************************)
(* Detections.non_max_supression, detections.py lines 186-222.             *)
(***************************************************************************)
default_stop_size == 2048
default_max_depth == 12

NumDets == Cardinality(DOMAIN self_data.boxes)

\* `if daq:` : False and the empty dict are falsy
daq_truthy ==
    \/ call.daq = "True"
    \/ call.daq = "dict" /\ DOMAIN heap[1] # {}

\* line 203
classes_arg == IF call.perclass THEN <<self_data.class_idxs>> ELSE <<>>

\* lines 205-207
scores_arg ==
    IF "scores" \in DOMAIN self_data
    THEN self_data.scores
    ELSE [k \in DOMAIN self_data.boxes |-> 1]

\* lines 215-216: max(self.boxes.width.max(), self.boxes.height.max())
diameter_min(t) ==
    Min(SetMin({x2(t, i) - x1(t, i) : i \in DOMAIN t}),
        SetMin({y2(t, i) - y1(t, i) : i \in DOMAIN t}))

default_diameter(t) ==
    Max(SetMax({x2(t, i) - x1(t, i) : i \in DOMAIN t}),
        SetMax({y2(t, i) - y1(t, i) : i \in DOMAIN t}))

\* line 213
thresh_zero(d, th) == <<0, 1>>

default_thresh(d, th) == dict_get(d, "thresh", th)

\* lines 209-213: the copy of the options with the defaults filled in
daqkw_filled ==
    LET a == IF call.daq = "True" THEN dict_new(heap) ELSE dict_copy(heap, 1)
        r == a.ref
        h1 == dict_set(a.heap, r, "impl", dict_get(a.heap[r], "impl", call.impl))
        h2 == dict_set(h1, r, "stop_size", dict_get(h1[r], "stop_size", default_stop_size))
        h3 == dict_set(h2, r, "max_depth", dict_get(h2[r], "max_depth", default_max_depth))
        h4 == dict_set(h3, r, "thresh", default_thresh(h3[r], call.thresh))
    IN  [ref |-> r, heap |-> h4]

\* lines 202-218, daq set
DetDaq ==
    /\ dpc = "call"
    /\ daq_truthy
    /\ "diameter" \in DOMAIN daqkw_filled.heap[daqkw_filled.ref] \/ NumDets > 0
    /\ LET a == daqkw_filled
           h == IF "diameter" \in DOMAIN a.heap[a.ref]
                THEN a.heap
                ELSE dict_set(a.heap, a.ref, "diameter", default_diameter(self_data.boxes))
       IN  /\ heap' = h
           /\ daqkw' = a.ref
           /\ ret' = daq_spatial_nms(self_data.boxes, scores_arg, h[a.ref], sortkind)
    /\ dpc' = "done"
    /\ UNCHANGED <<self_data, call, sortkind, nmsvars, maskvars, opvars, probvars>>

\* lines 202-216, daq set, no diameter given and no boxes: the max of an
\* empty array raises ValueError
DetDaqRaise ==
    /\ dpc = "call"
    /\ daq_truthy
    /\ "diameter" \notin DOMAIN daqkw_filled.heap[daqkw_filled.ref]
    /\ NumDets = 0
    /\ heap' = daqkw_filled.heap
    /\ daqkw' = daqkw_filled.ref
    /\ dpc' = "raised"
    /\ UNCHANGED <<self_data, call, ret, sortkind, nmsvars, maskvars, opvars, probvars>>

\* lines 202-207 and 219-222, daq not set
DetNms ==
    /\ dpc = "call"
    /\ ~daq_truthy
    /\ ret' = non_max_supression(self_data.boxes, scores_arg, call.thresh,
                                 classes_arg, sortkind)
    /\ dpc' = "done"
    /\ UNCHANGED <<self_data, call, heap, daqkw, sortkind, nmsvars, maskvars, opvars, probvars>>

(***************************************************************************)
(* The calls of Detections.non_max_supression that are explored: the       *)
(* receiver holds rows of the py_nms doctest, with or without scores, with *)
(* a class id per row; daq is False, True or a dict of options.            *)
(***************************************************************************)
\* The class ids given to the doctest rows: one class, alternating classes,
\* alternating pairs.
DoctestClassings ==
    { [k \in DOMAIN DoctestTlbr |-> 0],
      [k \in DOMAIN DoctestTlbr |-> k % 2],
      [k \in DOMAIN DoctestTlbr |-> (k \div 2) % 2] }

DaqDicts ==
    { <<>>,
      [stop_size |-> 1],
      [stop_size |-> 1, diameter |-> 0],
      [stop_size |-> 1, max_depth |-> 0],
      [thresh |-> <<1, 2>>, impl |-> "py"],
      [impl |-> "py", stop_size |-> 2, max_depth |-> 1, thresh |-> <<0, 1>>, diameter |-> 100] }

NmsIdle ==
    /\ np_tlbr = <<>>
    /\ np_scores = <<>>
    /\ thresh = <<0, 1>>
    /\ bias = 0
    /\ order = <<>>
    /\ keep = <<>>
    /\ visited = <<>>
    /\ pc = "idle"

DetInit ==
    /\ NmsIdle
    /\ MaskIdle
    /\ OpIdle
    /\ ProbIdle
    /\ \E I \in SUBSET (DOMAIN DoctestTlbr) :
          \E c \in DoctestClassings :
              \/ self_data = [boxes |-> Take(DoctestTlbr, I), class_idxs |-> Take(c, I),
                              scores |-> Take(DoctestScores, I)]
              \/ self_data = [boxes |-> Take(DoctestTlbr, I), class_idxs |-> Take(c, I)]
    /\ \E th \in ThreshSet \cup {DoctestThresh}, pcl \in BOOLEAN, d \in {"False", "True", "dict"} :
          call = [thresh |-> th, perclass |-> pcl, impl |-> "auto", daq |-> d]
    /\ IF call.daq = "dict" THEN \E d \in DaqDicts : heap = <<d>> ELSE heap = <<>>
    /\ sortkind \in (IF HasTies(scores_arg) THEN SortKinds ELSE {"stable"})
    /\ daqkw = 0
    /\ ret = <<>>
    /\ dpc = "call"

DetNext == DetDaq \/ DetDaqRaise \/ DetNms

SpecDet == DetInit /\ [][DetNext]_vars

(***************************************************************************)
(* numpy arrays of pixels.  An array is its shape <<h, w>>, the order of   *)
(* its memory ("C" row-major, "F" column-major) and its memory buffer, a   *)
(* sequence of 0 and 1.  Rows and columns are 0-based.                     *)
(***************************************************************************)
at(a, r, c) ==
    IF a.order = "C"
    THEN a.buf[r * a.shape[2] + c + 1]
    ELSE a.buf[c * a.shape[1] + r + 1]

numel(a) == a.shape[1] * a.shape[2]

\* a view of the same buffer declared column-major
asfortranarray_view(a) == [a EXCEPT !.order = "F"]

\* np.asfortranarray: the same pixels laid out column-major
asfortranarray(a) ==
    [shape |-> a.shape, order |-> "F",
     buf |-> [k \in 1..numel(a) |-> at(a, (k - 1) % a.shape[1], (k - 1) \div a.shape[1])]]

\* np.ascontiguousarray: the same pixels laid out row-major
ascontiguousarray(a) ==
    [shape |-> a.shape, order |-> "C",
     buf |-> [k \in 1..numel(a) |-> at(a, (k - 1) \div a.shape[2], (k - 1) % a.shape[2])]]

\* img.ravel(order)
ravel(a, ord) == IF ord = "F" THEN asfortranarray(a).buf ELSE ascontiguousarray(a).buf

(***************************************************************************)
(* The run-length codec, sections 3 and 4.1: counts alternate background   *)
(* and foreground run lengths and start with a background run, which has   *)
(* length zero when the first pixel is foreground.  The byte form packs    *)
(* each count, less the count two positions back from the fourth count on, *)
(* into 5-bit groups, lowest first; bit 0x20 of a character says another   *)
(* group follows, bit 0x10 of the last group is the sign, and 48 is added  *)
(* to make the character.                                                  *)
(***************************************************************************)
\* the runs of the pixels b, after a run of c pixels of value p
RECURSIVE rleEncode(_, _, _)
rleEncode(b, p, c) ==
    IF Len(b) = 0 THEN <<c>>
    ELSE IF Head(b) # p
         THEN <<c>> \o rleEncode(Tail(b), Head(b), 1)
         ELSE rleEncode(Tail(b), p, c + 1)

\* the pixels of the runs cnts, the first run having value v
RECURSIVE rleDecode(_, _)
rleDecode(cnts, v) ==
    IF Len(cnts) = 0 THEN <<>>
    ELSE [k \in 1..Head(cnts) |-> v] \o rleDecode(Tail(cnts), 1 - v)

\* the characters of one signed number
RECURSIVE rlePack(_)
rlePack(x) ==
    LET c == x % 32
        rest == x \div 32
        more == IF c >= 16 THEN rest # -1 ELSE rest # 0
    IN  <<c + (IF more THEN 32 ELSE 0) + 48>> \o (IF more THEN rlePack(rest) ELSE <<>>)

RECURSIVE rleToStringFrom(_, _)
rleToStringFrom(cnts, i) ==
    IF i > Len(cnts) THEN <<>>
    ELSE rlePack(IF i > 3 THEN cnts[i] - cnts[i - 2] ELSE cnts[i])
            \o rleToStringFrom(cnts, i + 1)

rleToString(cnts) == rleToStringFrom(cnts, 1)

\* the number whose characters start at s[p], given its k low groups x, and
\* the position after it
RECURSIVE rleUnpack(_, _, _, _)
rleUnpack(s, p, k, x) ==
    LET c == s[p] - 48
        xk == x + (c % 32) * 32^k
    IN  IF (c \div 32) % 2 = 1
        THEN rleUnpack(s, p + 1, k + 1, xk)
        ELSE [x |-> IF (c \div 16) % 2 = 1 THEN xk - 32^(k + 1) ELSE xk, p |-> p + 1]

RECURSIVE rleFrStringFrom(_, _, _)
rleFrStringFrom(s, p, cnts) ==
    IF p > Len(s) THEN cnts
    ELSE LET u == rleUnpack(s, p, 0, 0)
             m == Len(cnts)
         IN  rleFrStringFrom(s, u.p, Append(cnts, IF m > 2 THEN u.x + cnts[m - 1] ELSE u.x))

rleFrString(s) == rleFrStringFrom(s, 1, <<>>)

\* cython_mask.encode on one column-major mask: reads the memory buffer
encode(f_mask) == [counts |-> rleToString(rleEncode(f_mask.buf, 0, 0)), size |-> f_mask.shape]

\* cython_mask.decode of one compressed RLE: a column-major mask
decode(R) == [shape |-> R.size, order |-> "F", buf |-> rleDecode(rleFrString(R.counts), 0)]

\* cython_mask.frUncompressedRLE on one uncompressed RLE
frUncompressedRLE(data, h, w) == [counts |-> rleToString(data.counts), size |-> <<h, w>>]

\* kwimage.im_runlen._rle_bytes_to_array
rle_bytes_to_array(s) == rleFrString(s)

\* kwimage.encode_run_length(img, binary=True, order=order)
encode_run_length(img, binary, ord) ==
    [shape |-> img.shape, counts |-> rleEncode(ravel(img, ord), 0, 0),
     binary |-> binary, order |-> ord]

\* kwimage.decode_run_length(counts, shape, binary, order)
decode_run_length(encoded) ==
    [shape |-> encoded.shape, order |-> encoded.order, buf |-> rleDecode(encoded.counts, 0)]

(***************************************************************************)
(* Mask and its conversions, mask.py lines 45-207 and 489-491.  A Mask is  *)
(* its data and the format of the data; a call that raises is recorded as  *)
(* a value of format "raised".                                             *)
(***************************************************************************)
BYTES_RLE == "bytes_rle"
ARRAY_RLE == "array_rle"
C_MASK == "c_mask"
F_MASK == "f_mask"

cannonical == <<BYTES_RLE, ARRAY_RLE, C_MASK, F_MASK>>

Mask(data, format) == [data |-> data, format |-> format]

Raised(e) == [data |-> [error |-> e], format |-> "raised"]

to_bytes_rle(self) ==
    IF self.format = BYTES_RLE THEN self
    ELSE IF self.format = ARRAY_RLE
    THEN IF dict_get(self.data, "order", "F") # "F"
         THEN Raised("ValueError")
         ELSE Mask(frUncompressedRLE(self.data, self.data.size[1], self.data.size[2]),
                   BYTES_RLE)
    ELSE IF self.format = F_MASK
    THEN Mask(encode(self.data), BYTES_RLE)
    ELSE IF self.format = C_MASK
    THEN Mask(encode(asfortranarray(self.data)), BYTES_RLE)
    ELSE Raised("NotImplementedError")

to_fortran_mask(self) ==
    IF self.format = F_MASK THEN self
    ELSE IF self.format = C_MASK
    THEN Mask(asfortranarray(self.data), F_MASK)
    ELSE IF self.format = ARRAY_RLE
    THEN Mask(decode_run_length([k \in DOMAIN self.data \ {"size"} |-> self.data[k]]),
              F_MASK)
    ELSE LET b == to_bytes_rle(self)
         IN  IF b.format = "raised" THEN b ELSE Mask(decode(b.data), F_MASK)

\* line 172: order='F'
array_rle_order_c == "C"

array_rle_order == "F"

to_array_rle(self) ==
    IF self.format = ARRAY_RLE THEN self
    ELSE IF self.format = BYTES_RLE
    THEN Mask([size |-> self.data.size,
               binary |-> dict_get(self.data, "binary", TRUE),
               counts |-> rle_bytes_to_array(self.data.counts),
               order |-> dict_get(self.data, "order", "F"),
               shape |-> dict_get(self.data, "shape", self.data.size)],
              ARRAY_RLE)
    ELSE LET f == to_fortran_mask(self)
             encoded == encode_run_length(f.data, TRUE, array_rle_order)
         IN  IF f.format = "raised" THEN f
             ELSE Mask([shape |-> encoded.shape, counts |-> encoded.counts,
                        binary |-> encoded.binary, order |-> encoded.order,
                        size |-> encoded.shape],
                       ARRAY_RLE)

to_c_mask(self) ==
    IF self.format = C_MASK THEN self
    ELSE IF self.format = F_MASK
    THEN Mask(ascontiguousarray(self.data), C_MASK)
    ELSE LET f == to_fortran_mask(self)
         IN  IF f.format = "raised" THEN f
             ELSE Mask(ascontiguousarray(f.data), C_MASK)

\* lines 65-67: every cannonical name is an alias of itself
aliases == [k \in Range(cannonical) |-> k]

\* line 112: key = MaskFormat.aliases.get(format, format)
alias_key_lenient(format) == dict_get(aliases, format, C_MASK)

alias_key(format) == dict_get(aliases, format, format)

\* lines 112-117
toformat(self, format) ==
    LET key == alias_key(format)
    IN  IF key = BYTES_RLE THEN to_bytes_rle(self)
        ELSE IF key = ARRAY_RLE THEN to_array_rle(self)
        ELSE IF key = F_MASK THEN to_fortran_mask(self)
        ELSE IF key = C_MASK THEN to_c_mask(self)
        ELSE Raised("KeyError")

(***************************************************************************)
(* The toformat doctest, mask.py lines 96-110, on any small mask: the mask *)
(* is converted to format1, the result to format2, and both results are    *)
(* decoded with to_c_mask.                                                 *)
(***************************************************************************)
MaxSide == 2

\* the masks of up to MaxSide rows and columns, as C_MASK and as F_MASK
SmallMasks ==
    UNION { { Mask([shape |-> <<h, w>>, order |-> "C", buf |-> b], C_MASK),
              Mask([shape |-> <<h, w>>, order |-> "F", buf |-> b], F_MASK) } :
            <<h, w, b>> \in UNION { { <<hh, ww, bb>> : bb \in [1..hh * ww -> {0, 1}] } :
                                     <<hh, ww>> \in (1..MaxSide) \X (1..MaxSide) } }

\* masks of 5 rows and 4 columns whose runs take more than one character:
\* the foreground is a set of positions of the buffer
LongForegrounds == { {}, 1..20, {2} \cup (4..20), (1..18) \cup {20}, 3..18 }

LongMasks ==
    UNION { { Mask([shape |-> <<5, 4>>, order |-> "C",
                    buf |-> [k \in 1..20 |-> IF k \in fg THEN 1 ELSE 0]], C_MASK),
              Mask([shape |-> <<5, 4>>, order |-> "F",
                    buf |-> [k \in 1..20 |-> IF k \in fg THEN 1 ELSE 0]], F_MASK) } :
            fg \in LongForegrounds }

MaskInit ==
    /\ NmsIdle
    /\ DetIdle
    /\ OpIdle
    /\ ProbIdle
    /\ sortkind = "stable"
    /\ mask \in SmallMasks \cup LongMasks
    /\ mask1 = NoMask
    /\ mask2 = NoMask
    /\ img1 = NoImage
    /\ img2 = NoImage
    /\ mpc = "mask"

\* line 99: mask1 = mask.toformat(format1)
MaskToFormat1 ==
    /\ mpc = "mask"
    /\ \E format1 \in Range(cannonical) : mask1' = toformat(mask, format1)
    /\ mpc' = IF mask1'.format = "raised" THEN "raised" ELSE "mask1"
    /\ UNCHANGED <<mask, mask2, img1, img2, nmsvars, detvars, opvars, probvars, sortkind>>

\* line 101: mask2 = mask1.toformat(format2)
MaskToFormat2 ==
    /\ mpc = "mask1"
    /\ \E format2 \in Range(cannonical) : mask2' = toformat(mask1, format2)
    /\ mpc' = IF mask2'.format = "raised" THEN "raised" ELSE "mask2"
    /\ UNCHANGED <<mask, mask1, img1, img2, nmsvars, detvars, opvars, probvars, sortkind>>

\* lines 102-103: img1 = mask1.to_c_mask().data, img2 = mask2.to_c_mask().data
MaskImages ==
    /\ mpc = "mask2"
    /\ to_c_mask(mask1).format # "raised"
    /\ to_c_mask(mask2).format # "raised"
    /\ img1' = to_c_mask(mask1).data
    /\ img2' = to_c_mask(mask2).data
    /\ mpc' = "done"
    /\ UNCHANGED <<mask, mask1, mask2, nmsvars, detvars, opvars, probvars, sortkind>>

MaskNext == MaskToFormat1 \/ MaskToFormat2 \/ MaskImages

SpecMask == MaskInit /\ [][MaskNext]_vars

(***************************************************************************)
(* The set operations and measures on compressed RLEs, section 4.2.        *)
(* A failed call is recorded as data with an error field.                  *)
(***************************************************************************)
Failed(e) == [error |-> e]

IsError(d) == "error" \in DOMAIN d

SeqSum(s) == LET RECURSIVE sum(_)
                 sum(k) == IF k = 0 THEN 0 ELSE s[k] + sum(k - 1)
             IN  sum(Len(s))

\* the foreground runs of counts are the 2nd, 4th, ...
fg_total(cnts) == SeqSum([k \in 1..(Len(cnts) \div 2) |-> cnts[2 * k]])

\* cython_mask.merge(datas, intersect): a pixel of the result is foreground
\* when at least one (union) or every (intersection) operand has it so
merge(datas, intersect) ==
    IF Len(datas) = 0 THEN Failed("EmptyInput")
    ELSE IF \E k \in DOMAIN datas : datas[k].size # datas[1].size
    THEN Failed("ShapeMismatch")
    ELSE LET px == [k \in DOMAIN datas |-> rleDecode(rleFrString(datas[k].counts), 0)]
             n == datas[1].size[1] * datas[1].size[2]
             covered(q) == Cardinality({k \in DOMAIN datas : px[k][q] = 1})
             need == IF intersect = 1 THEN Len(datas) ELSE 1
             b == [q \in 1..n |-> IF covered(q) >= need THEN 1 ELSE 0]
         IN  [counts |-> rleToString(rleEncode(b, 0, 0)), size |-> datas[1].size]

\* cython_mask.area of one compressed RLE
rle_area(R) == fg_total(rleFrString(R.counts))

\* cython_mask.iou of one detection and one ground truth: intersection
\* area over union area, 0/0 being 0; for a crowd ground truth the
\* denominator is the area of the detection
rle_iou(dt, gt, iscrowd) ==
    LET i == merge(<<dt, gt>>, 1)
        u == merge(<<dt, gt>>, 0)
        d == IF iscrowd[1] = 1 THEN rle_area(dt) ELSE rle_area(u)
    IN  IF IsError(i) THEN i
        ELSE IF d = 0 THEN [n |-> 0, d |-> 1]
        ELSE [n |-> rle_area(i), d |-> d]

(***************************************************************************)
(* kwimage.rle_translate(rle, offset, output_shape), section 4.3.  The     *)
(* major axis is the column for order "F" and the row for order "C"; flat  *)
(* positions are 0-based.                                                  *)
(***************************************************************************)
\* step 1: the foreground runs <<start, stop>> (stop exclusive) of counts
RECURSIVE fg_runs(_, _, _)
fg_runs(cnts, pos, v) ==
    IF Len(cnts) = 0 THEN <<>>
    ELSE (IF v = 1 /\ Head(cnts) > 0 THEN <<<<pos, pos + Head(cnts)>>>> ELSE <<>>)
            \o fg_runs(Tail(cnts), pos + Head(cnts), 1 - v)

\* step 2: the pieces <<major, lo, hi>> of one run, one per major line of
\* minor length n that the run touches
split_run(run, n) ==
    [k \in 1..(((run[2] - 1) \div n) - (run[1] \div n) + 1) |->
        LET m == (run[1] \div n) + k - 1
        IN  <<m, Max(run[1], m * n) - m * n, Min(run[2], (m + 1) * n) - m * n>>]

RECURSIVE split_runs(_, _)
split_runs(runs, n) ==
    IF Len(runs) = 0 THEN <<>>
    ELSE split_run(Head(runs), n) \o split_runs(Tail(runs), n)

\* steps 3 and 4: shift the pieces, drop those off the canvas, clamp the rest
RECURSIVE shift_clip(_, _, _, _, _)
shift_clip(pieces, dmajor, dminor, nmajor, nminor) ==
    IF Len(pieces) = 0 THEN <<>>
    ELSE LET m == Head(pieces)[1] + dmajor
             lo == Head(pieces)[2] + dminor
             hi == Head(pieces)[3] + dminor
             inside == m >= 0 /\ m < nmajor /\ hi > 0 /\ lo < nminor
         IN  (IF inside THEN <<<<m, Max(lo, 0), Min(hi, nminor)>>>> ELSE <<>>)
                \o shift_clip(Tail(pieces), dmajor, dminor, nmajor, nminor)

\* step 5: the counts of the pieces on a canvas of total pixels
RECURSIVE pieces_to_counts(_, _, _, _)
pieces_to_counts(pieces, nminor, pos, total) ==
    IF Len(pieces) = 0 THEN <<total - pos>>
    ELSE LET start == Head(pieces)[1] * nminor + Head(pieces)[2]
             stop == Head(pieces)[1] * nminor + Head(pieces)[3]
         IN  <<start - pos, stop - start>>
                \o pieces_to_counts(Tail(pieces), nminor, stop, total)

\* offset is <<dx, dy>>, shapes are <<h, w>>
rle_translate(rle, offset, output_shape) ==
    LET colmajor == rle.order = "F"
        n == IF colmajor THEN rle.shape[1] ELSE rle.shape[2]
        nmajor == IF colmajor THEN output_shape[2] ELSE output_shape[1]
        nminor == IF colmajor THEN output_shape[1] ELSE output_shape[2]
        dmajor == IF colmajor THEN offset[1] ELSE offset[2]
        dminor == IF colmajor THEN offset[2] ELSE offset[1]
        pieces == shift_clip(split_runs(fg_runs(rle.counts, 0, 0), n),
                             dmajor, dminor, nmajor, nminor)
    IN  [shape |-> output_shape, binary |-> rle.binary, order |-> rle.order,
         counts |-> pieces_to_counts(pieces, nminor, 0, nmajor * nminor)]

(***************************************************************************)
(* Mask.shape, Mask.area, Mask.translate, Mask.union, Mask.intersection    *)
(* and Mask.iou, mask.py lines 357-383, 563-625 and 946-970, and           *)
(* Masks.coerce, masks.py lines 193-206.                                   *)
(***************************************************************************)
\* isinstance(self, Mask)
is_Mask(self) == self.format \in Range(cannonical)

\* lines 604-612
shape(self) ==
    IF self.format \in {BYTES_RLE, ARRAY_RLE}
    THEN IF "shape" \in DOMAIN self.data THEN self.data.shape ELSE self.data.size
    ELSE self.data.shape

\* lines 614-625
area(self) ==
    LET b == to_bytes_rle(self)
    IN  IF b.format = "raised" THEN b ELSE rle_area(b.data)

\* lines 375-376; `None` is <<>>
default_output_dims_swapped(self, output_dims) ==
    IF output_dims = <<>> THEN <<shape(self)[2], shape(self)[1]>> ELSE output_dims

default_output_dims(self, output_dims) ==
    IF output_dims = <<>> THEN shape(self) ELSE output_dims

\* lines 377-378; a number d that is not iterable is <<d>>
offset_ignored(offset) == <<0, 0>>

offset_swapped(offset) == <<offset[Len(offset)], offset[1]>>

offset_pair(offset) == IF Len(offset) = 1 THEN <<offset[1], offset[1]>> ELSE offset

\* line 381
translate_size_old(rle, new_rle) == rle.size

translate_size(rle, new_rle) == new_rle.shape

\* lines 374-383
translate(self, offset, output_dims) ==
    LET a == to_array_rle(self)
        new_rle == rle_translate(a.data, offset_pair(offset),
                                 default_output_dims(self, output_dims))
    IN  IF a.format = "raised" THEN a
        ELSE Mask([shape |-> new_rle.shape, binary |-> new_rle.binary,
                   order |-> new_rle.order, counts |-> new_rle.counts,
                   size |-> translate_size(a.data, new_rle)],
                  ARRAY_RLE)

\* np.bitwise_or of two arrays, with broadcasting
bitwise_or(a, b) ==
    LET h == Max(a.shape[1], b.shape[1])
        w == Max(a.shape[2], b.shape[2])
        fits(x) == x.shape[1] \in {1, h} /\ x.shape[2] \in {1, w}
        px(x, r, c) == at(x, IF x.shape[1] = 1 THEN 0 ELSE r, IF x.shape[2] = 1 THEN 0 ELSE c)
    IN  IF IsError(a) THEN a
        ELSE IF ~(fits(a) /\ fits(b)) THEN Failed("ValueError")
        ELSE [shape |-> <<h, w>>, order |-> "C",
              buf |-> [k \in 1..(h * w) |->
                          Max(px(a, (k - 1) \div w, (k - 1) % w),
                              px(b, (k - 1) \div w, (k - 1) % w))]]

RECURSIVE bitwise_or_fold(_)
bitwise_or_fold(datas) ==
    IF Len(datas) = 1 THEN datas[1]
    ELSE bitwise_or(bitwise_or_fold(SubSeq(datas, 1, Len(datas) - 1)), datas[Len(datas)])

bitwise_or_reduce_zeros(datas, build) ==
    [datas[1] EXCEPT !.buf = [k \in DOMAIN datas[1].buf |-> 0]]

\* line 576, np.bitwise_or.reduce(datas).  Arrays of one shape stack into
\* one array.  For arrays of different shapes the build decides: a numpy
\* that refuses ragged lists raises ValueError; a numpy that makes an array
\* of objects of them (which it does when the numbers of rows differ)
\* combines the arrays one by one, with broadcasting.
bitwise_or_reduce(datas, build) ==
    IF \A k \in DOMAIN datas : datas[k].shape = datas[1].shape
    THEN bitwise_or_fold(datas)
    ELSE IF build = "error" \/ \A k \in DOMAIN datas : datas[k].shape[1] = datas[1].shape[1]
    THEN Failed("ValueError")
    ELSE bitwise_or_fold(datas)

\* lines 563-568
union_items_default(self, others) ==
    IF is_Mask(self) THEN <<self>> \o others
    ELSE IF Len(others) = 0
         THEN <<Mask([shape |-> <<1, 1>>, order |-> "C", buf |-> <<0>>], C_MASK)>>
         ELSE others

union_items(self, others) == IF is_Mask(self) THEN <<self>> \o others ELSE others

any_raised(ms) == \E k \in DOMAIN ms : ms[k].format = "raised"

\* the first raised conversion among the masks ms
first_raised(ms) ==
    ms[CHOOSE k \in DOMAIN ms :
          /\ ms[k].format = "raised"
          /\ \A j \in 1..(k - 1) : ms[j].format # "raised"]

\* lines 563-586
union(self, others, build) ==
    LET its == union_items(self, others)
        cs == [k \in DOMAIN its |-> to_c_mask(its[k])]
        bs == [k \in DOMAIN its |-> to_bytes_rle(its[k])]
        new_data == bitwise_or_reduce([k \in DOMAIN cs |-> cs[k].data], build)
        new_rle == merge([k \in DOMAIN bs |-> bs[k].data], 0)
    IN  IF Len(its) = 0 THEN Raised("Exception")
        ELSE IF its[1].format = C_MASK
        THEN IF any_raised(cs) THEN first_raised(cs)
             ELSE IF IsError(new_data) THEN Raised(new_data.error)
             ELSE Mask(new_data, C_MASK)
        ELSE IF any_raised(bs) THEN first_raised(bs)
             ELSE IF IsError(new_rle) THEN Raised(new_rle.error)
             ELSE Mask(new_rle, BYTES_RLE)

\* lines 600-602; called with no operand at all, Python raises TypeError
\* for the missing self
intersection(self, others) ==
    LET its == <<self>> \o others
        bs == [k \in DOMAIN its |-> to_bytes_rle(its[k])]
        new_rle == merge([k \in DOMAIN bs |-> bs[k].data], 1)
    IN  IF ~is_Mask(self) THEN Raised("TypeError")
        ELSE IF any_raised(bs) THEN first_raised(bs)
        ELSE IF IsError(new_rle) THEN Raised(new_rle.error)
        ELSE Mask(new_rle, BYTES_RLE)

\* line 968: np.array([0], dtype=np.uint8)
pyiscrowd_crowd == <<1>>

pyiscrowd == <<0>>

\* lines 964-970
iou(self, other) ==
    LET item1 == to_bytes_rle(self)
        item2 == to_bytes_rle(other)
    IN  IF item1.format = "raised" THEN Failed(item1.data.error)
        ELSE IF item2.format = "raised" THEN Failed(item2.data.error)
        ELSE rle_iou(item1.data, item2.data, pyiscrowd)

\* masks.py lines 193-206, on masks given as arrays: the compressed RLE of
\* each item
Masks_coerce(data) ==
    IF Len(data) = 0 THEN Raised("ValueError")
    ELSE [data |-> [k \in DOMAIN data |-> to_bytes_rle(data[k]).data],
          format |-> "compressed_rle"]

(***************************************************************************)
(* cython_mask.toBbox, section 4.2: the box <<x, y, w, h>> from the run    *)
(* positions of a column-major RLE, each run end mapped back to a column x *)
(* and a row y; a foreground run that continues into a later column spans  *)
(* all rows.  An RLE without a foreground run gives <<0, 0, 0, 0>>.        *)
(***************************************************************************)
RECURSIVE rleToBboxFrom(_, _, _, _, _)
rleToBboxFrom(cnts, h, j, cc, st) ==
    IF j > (Len(cnts) \div 2) * 2 THEN st
    ELSE LET cc1 == cc + cnts[j]
             odd == (j - 1) % 2
             t == cc1 - odd
             y == t % h
             x == (t - y) \div h
             full == odd = 1 /\ st.xp < x
         IN  rleToBboxFrom(cnts, h, j + 1, cc1,
                 [xs |-> Min(st.xs, x), xe |-> Max(st.xe, x),
                  ys |-> IF full THEN 0 ELSE Min(st.ys, y),
                  ye |-> IF full THEN h - 1 ELSE Max(st.ye, y),
                  xp |-> IF odd = 0 THEN x ELSE st.xp])

toBbox(R) ==
    LET cnts == rleFrString(R.counts)
        h == R.size[1]
        w == R.size[2]
        st == rleToBboxFrom(cnts, h, 1, 0, [xs |-> w, xe |-> 0, ys |-> h, ye |-> 0, xp |-> 0])
    IN  IF Len(cnts) \div 2 = 0 THEN <<0, 0, 0, 0>>
        ELSE <<st.xs, st.ys, st.xe - st.xs + 1, st.ye - st.ys + 1>>

\* mask.py lines 663-667
get_xywh(self) ==
    LET b == to_bytes_rle(self)
    IN  IF b.format = "raised" THEN Failed(b.data.error) ELSE toBbox(b.data)

(***************************************************************************)
(* Objects.  The data of a Mask is an object; a method that returns self   *)
(* returns the receiver's own data object, and a write to a dict changes   *)
(* the object the written name refers to.  A heap is a sequence of         *)
(* objects, a reference an index into it.                                  *)
(***************************************************************************)
\* lines 121-122, 156-157, 179-180, 198-199: return self.copy() if copy
\* else self; Mask.copy (line 522) deep-copies the data
returns_self(self, key, copy) == self.format = key /\ ~copy

\* line 184, dict(self.data): a new dict with the items of the old one
dict_of_alias(objs, ref) == [heap |-> objs, ref |-> ref]

dict_of(objs, ref) == [heap |-> Append(objs, objs[ref]), ref |-> Len(objs) + 1]

\* lines 183-186: the receiver's data after to_fortran_mask on an array
\* RLE, which pops 'size' from encoded
to_fortran_self_after(self) ==
    IF self.format # ARRAY_RLE THEN self
    ELSE LET encoded == dict_of(<<self.data>>, 1)
             popped == [encoded.heap EXCEPT
                           ![encoded.ref] = [k \in DOMAIN @ \ {"size"} |-> @[k]]]
         IN  [self EXCEPT !.data = popped[1]]

\* the receiver after self.toformat(key): to_c_mask calls to_fortran_mask
\* (line 203); to_bytes_rle and to_array_rle write only dicts they build
conv_self_after(self, key) ==
    IF key \in {F_MASK, C_MASK} /\ self.format \notin {F_MASK, C_MASK}
    THEN to_fortran_self_after(self)
    ELSE self

\* lines 379-381: rle is the receiver's data when the receiver is an array
\* RLE (to_array_rle(copy=False) returns self) and a dict that the
\* conversion built otherwise; new_rle is a dict that rle_translate builds,
\* and line 381 writes new_rle['size']
translate_self_after(self, offset, output_dims) ==
    LET heap0 == <<self.data>>
        new_rle == Len(heap0) + 1
        heap1 == Append(heap0, [size |-> <<>>, offset |-> offset])
        heap2 == [heap1 EXCEPT ![new_rle] = [@ EXCEPT !.size = output_dims]]
    IN  [self EXCEPT !.data = heap2[1]]

\* lines 574-585: union converts each item with to_c_mask when the first
\* item is a c_mask and with to_bytes_rle otherwise
union_items_after(its) ==
    IF its # <<>> /\ its[1].format = C_MASK
    THEN [k \in DOMAIN its |-> conv_self_after(its[k], C_MASK)]
    ELSE its

(***************************************************************************)
(* Mask.from_mask, lines 250-297.  kwimage.subpixel_translate is used with *)
(* integer offsets only: it places the array at the <<row, column>> offset *)
(* inside a canvas of zeros of the output shape.                           *)
(***************************************************************************)
subpixel_translate(img, rc_offset, output_shape) ==
    [shape |-> output_shape, order |-> "C",
     buf |-> [k \in 1..(output_shape[1] * output_shape[2]) |->
                LET r == ((k - 1) \div output_shape[2]) - rc_offset[1]
                    c == ((k - 1) % output_shape[2]) - rc_offset[2]
                IN  IF r >= 0 /\ r < img.shape[1] /\ c >= 0 /\ c < img.shape[2]
                    THEN at(img, r, c) ELSE 0]]

\* lines 273-276: the defaults of shape and offset; None is <<>>
from_mask_shape(mask_, shape_) == IF shape_ = <<>> THEN mask_.shape ELSE shape_

from_mask_offset(offset) == IF offset = <<>> THEN <<0, 0>> ELSE offset

\* line 280: rc_offset = offset[::-1]
rc_offset_xy(offset) == offset

rc_offset(offset) == Reverse(offset)

\* lines 277-297
from_mask(mask_, offset, shape_, method) ==
    LET sh == from_mask_shape(mask_, shape_)
        off == from_mask_offset(offset)
    IN  IF method = "naive"
        THEN to_array_rle(Mask(subpixel_translate(mask_, rc_offset(off), sh), C_MASK))
        ELSE IF method = "faster"
        THEN LET encoded == encode_run_length(mask_, TRUE, "F")
                 self == Mask([shape |-> encoded.shape, counts |-> encoded.counts,
                               binary |-> encoded.binary, order |-> encoded.order,
                               size |-> encoded.shape], ARRAY_RLE)
             IN  translate(self, off, sh)
        ELSE Raised("KeyError")

(***************************************************************************)
(* The calls of Mask methods that are explored.  The operands are small    *)
(* masks in any format; prog is the sequence of calls the caller makes,    *)
(* each on the result of the one before; a call that raises ends it.       *)
(***************************************************************************)
MaxRows == 2
MaxShift == 2
MaxOps == 2

OpWidths == {1, 2}

OpShapes == (1..MaxRows) \X OpWidths

\* every raster of at most MaxRows rows and two columns
OpRasters ==
    UNION { { [shape |-> sh, order |-> "C", buf |-> b] :
               b \in [1..(sh[1] * sh[2]) -> {0, 1}] } : sh \in OpShapes }

\* per shape: all background, all foreground, the first pixel alone
ThinRasters ==
    UNION { { [shape |-> sh, order |-> "C", buf |-> [k \in 1..(sh[1] * sh[2]) |-> v]] :
               v \in {0, 1} }
            \cup { [shape |-> sh, order |-> "C",
                    buf |-> [k \in 1..(sh[1] * sh[2]) |-> IF k = 1 THEN 1 ELSE 0]] } :
            sh \in OpShapes }

TallRasters == {r \in ThinRasters : r.shape = <<MaxRows, 2>>}

\* the raster r as a mask of format f
AsFormat(r, f) == toformat(Mask(r, C_MASK), f)

Formats == Range(cannonical)

\* the formats masks are built in: a dense array, a compressed RLE
BuiltFormats == {C_MASK, BYTES_RLE}

Shifts == (-MaxShift)..MaxShift

\* an offset is <<dx, dy>>, or <<d>> for the number d
Offsets == (Shifts \X Shifts) \cup {<<d>> : d \in Shifts}

\* output_dims: omitted, empty, one row, one row more than any operand
DimsSet == {<<>>, <<0, 0>>, <<1, MaxRows>>, <<MaxRows + 1, 2>>}

\* a call: the method, and its arguments where it takes them
MethodCall(op, o, d, f, c) ==
    [op |-> op, offset |-> o, output_dims |-> d, format |-> f, copy |-> c]

Call(op) == MethodCall(op, <<>>, <<>>, "", FALSE)

TranslateCall(o, d) == MethodCall("translate", o, d, "", FALSE)

\* the names asked of toformat: the four formats and two that are none
FormatNames == Range(cannonical) \cup {"polygon", "C_MASK"}

ToformatCalls == {MethodCall("toformat", <<>>, <<>>, f, c) : f \in FormatNames, c \in BOOLEAN}

\* from_mask(mask, offset, shape): offset is <<x, y>> or None
FromMaskCalls ==
    {MethodCall("from_mask", o, d, "", FALSE) : o \in (Shifts \X Shifts) \cup {<<>>}, d \in DimsSet}

TranslateCalls == {TranslateCall(o, d) : o \in Offsets, d \in DimsSet}

ThinCalls ==
    { Call("to_array_rle"), Call("to_bytes_rle"), Call("union"), Call("intersection"),
      Call("get_xywh"),
      TranslateCall(<<1, -1>>, <<>>), TranslateCall(<<-1, 0>>, <<MaxRows + 1, 2>>) }

RECURSIVE Programs(_)
Programs(n) ==
    IF n = 0 THEN {<<>>}
    ELSE {<<c>> \o p : c \in ThinCalls, p \in Programs(n - 1)}

Builds == {"error", "object"}

\* the build matters when a union is asked of masks of different shapes
BuildMatters ==
    /\ \E k \in DOMAIN prog : prog[k].op = "union"
    /\ \E k \in DOMAIN items : shape(items[k]) # shape(items[1])

OpInit ==
    /\ NmsIdle
    /\ DetIdle
    /\ MaskIdle
    /\ ProbIdle
    /\ sortkind = "stable"
    /\ res = NoResult
    /\ \/ \E r \in OpRasters, f \in BuiltFormats, c \in TranslateCalls :
             items = <<AsFormat(r, f)>> /\ prog = <<c>>
       \/ \E m \in LongMasks \cup {Mask(r, C_MASK) : r \in OpRasters}, f \in Formats,
             op \in {"to_array_rle", "to_bytes_rle", "union", "intersection", "rle_doctest",
                     "get_xywh"} :
             items = <<toformat(m, f)>> /\ prog = <<Call(op)>>
       \/ \E r \in OpRasters, f \in Formats, c \in ToformatCalls :
             items = <<AsFormat(r, f)>> /\ prog = <<c>>
       \/ \E r \in OpRasters, c \in FromMaskCalls :
             items = <<Mask(r, C_MASK)>> /\ prog = <<c>>
       \/ \E op \in {"union", "intersection", "coerce"} :
             items = <<>> /\ prog = <<Call(op)>>
       \/ \E r1 \in ThinRasters, r2 \in ThinRasters, f1 \in Formats, f2 \in Formats,
             op \in {"union", "intersection", "coerce"} :
             items = <<AsFormat(r1, f1), AsFormat(r2, f2)>> /\ prog = <<Call(op)>>
       \/ \E r1 \in OpRasters, r2 \in OpRasters, f1 \in BuiltFormats, f2 \in BuiltFormats :
             /\ r1.shape = r2.shape
             /\ items = <<AsFormat(r1, f1), AsFormat(r2, f2)>>
             /\ prog = <<Call("iou")>>
       \/ \E n \in 2..MaxOps : \E p \in Programs(n) :
             \E r1 \in TallRasters, r2 \in TallRasters, f1 \in {C_MASK, ARRAY_RLE},
                f2 \in {C_MASK, ARRAY_RLE}, single \in BOOLEAN :
                /\ single => r1 = r2 /\ f1 = f2
                /\ items = (IF single THEN <<AsFormat(r1, f1)>>
                            ELSE <<AsFormat(r1, f1), AsFormat(r2, f2)>>)
                /\ prog = p
    /\ npbuild \in (IF BuildMatters THEN Builds ELSE {"error"})

\* the operands as the call c leaves them
operands_after(c, its) ==
    IF its = <<>> THEN its
    ELSE IF c.op = "toformat" THEN <<conv_self_after(its[1], c.format)>> \o Tail(its)
    ELSE IF c.op = "translate"
    THEN <<translate_self_after(its[1], c.offset, c.output_dims)>> \o Tail(its)
    ELSE IF c.op = "union" THEN union_items_after(its)
    ELSE its

\* the call c returned the receiver itself
result_is_self(c, its) ==
    /\ its # <<>>
    /\ \/ c.op = "toformat" /\ returns_self(its[1], c.format, c.copy)
       \/ c.op = "to_array_rle" /\ returns_self(its[1], ARRAY_RLE, FALSE)
       \/ c.op = "to_bytes_rle" /\ returns_self(its[1], BYTES_RLE, FALSE)

Outcome(v) ==
    [op |-> Head(prog).op, call |-> Head(prog), args |-> items, value |-> v,
     after |-> operands_after(Head(prog), items),
     shares |-> result_is_self(Head(prog), items)]

Returned(v, next) ==
    /\ res' = Outcome(v)
    /\ items' = next
    /\ prog' = Tail(prog)
    /\ UNCHANGED <<npbuild, nmsvars, detvars, maskvars, probvars, sortkind>>

\* the call raised: the caller makes no further call
Raises(v) ==
    /\ res' = Outcome(v)
    /\ prog' = <<>>
    /\ UNCHANGED <<items, npbuild, nmsvars, detvars, maskvars, probvars, sortkind>>

Finish(v, next) == IF v.format = "raised" THEN Raises(v) ELSE Returned(v, next)

NextCall(op) == prog # <<>> /\ Head(prog).op = op

OpToArrayRle ==
    /\ NextCall("to_array_rle")
    /\ Len(items) > 0
    /\ LET v == to_array_rle(items[1]) IN Finish(v, <<v>> \o Tail(items))

OpToBytesRle ==
    /\ NextCall("to_bytes_rle")
    /\ Len(items) > 0
    /\ LET v == to_bytes_rle(items[1]) IN Finish(v, <<v>> \o Tail(items))

OpTranslate ==
    /\ NextCall("translate")
    /\ Len(items) > 0
    /\ LET v == translate(items[1], Head(prog).offset, Head(prog).output_dims)
       IN  Finish(v, <<v>> \o Tail(items))

\* items[0].toformat(format, copy)
OpToformat ==
    /\ NextCall("toformat")
    /\ Len(items) > 0
    /\ LET v == toformat(items[1], Head(prog).format) IN Finish(v, <<v>> \o Tail(items))

\* items[0].get_xywh()
OpGetXywh ==
    /\ NextCall("get_xywh")
    /\ Len(items) > 0
    /\ Returned(get_xywh(items[1]), items)

\* Mask.from_mask(items[0].data, offset, shape, method) with both methods
OpFromMask ==
    /\ NextCall("from_mask")
    /\ Len(items) > 0
    /\ LET c == Head(prog)
       IN  Returned([faster |-> from_mask(items[1].data, c.offset, c.output_dims, "faster"),
                     naive |-> from_mask(items[1].data, c.offset, c.output_dims, "naive")],
                    items)

\* Mask.union(*items); with no item, self is not a Mask
OpUnion ==
    /\ NextCall("union")
    /\ LET v == IF Len(items) = 0 THEN union(NoMask, <<>>, npbuild)
                ELSE union(items[1], Tail(items), npbuild)
       IN  Finish(v, <<v>>)

\* Mask.intersection(*items)
OpIntersection ==
    /\ NextCall("intersection")
    /\ LET v == IF Len(items) = 0 THEN intersection(NoMask, <<>>)
                ELSE intersection(items[1], Tail(items))
       IN  Finish(v, <<v>>)

\* items[0].iou(items[1]) and items[1].iou(items[0])
OpIou ==
    /\ NextCall("iou")
    /\ Len(items) = 2
    /\ Returned([ab |-> iou(items[1], items[2]), ba |-> iou(items[2], items[1])], items)

\* Masks.coerce(items)
OpCoerce ==
    /\ NextCall("coerce")
    /\ Finish(Masks_coerce(items), items)

\* the to_bytes_rle doctest, mask.py lines 124-130, and the array RLE of
\* its last result
OpRleDoctest ==
    /\ NextCall("rle_doctest")
    /\ Len(items) > 0
    /\ LET a == to_array_rle(items[1])
           via == to_bytes_rle(a)
       IN  Returned([direct |-> to_bytes_rle(items[1]), array |-> a, via |-> via,
                     back |-> IF via.format = "raised" THEN via ELSE to_array_rle(via)],
                    items)

OpNext ==
    \/ OpToArrayRle
    \/ OpToBytesRle
    \/ OpTranslate
    \/ OpUnion
    \/ OpIntersection
    \/ OpIou
    \/ OpCoerce
    \/ OpRleDoctest
    \/ OpToformat
    \/ OpGetXywh
    \/ OpFromMask

SpecOps == OpInit /\ [][OpNext]_vars

(***************************************************************************)
(* _prob_to_dets, heatmap.py lines 799-935, on a numpy probability map.    *)
(* The probabilities are small integers; an array is its shape, its memory *)
(* order and its buffer.  A detection is the pixel <<yc, xc>> it stands on *)
(* and the score of the pixel.                                             *)
(***************************************************************************)
default_num_min == 10

\* line 901, probs > min_score: the result has the memory layout of probs
greater(a, s) == [a EXCEPT !.buf = [k \in DOMAIN a.buf |-> IF a.buf[k] > s THEN 1 ELSE 0]]

\* an array whose buffer is in row-major order: declared so, or with at
\* most one row or one column
c_contiguous(a) == a.order = "C" \/ a.shape[1] <= 1 \/ a.shape[2] <= 1

\* line 911, kwarray.argmaxima(probs, num, ordered=False): the row-major
\* flat indices of num largest values (all of them when num exceeds the
\* size, as the doctest of lines 838-847 needs); any choice among equals
argmaxima(a, num) ==
    LET flat == ascontiguousarray(a).buf
        n == Min(num, Len(flat))
    IN  {I \in SUBSET (DOMAIN flat) :
            /\ Cardinality(I) = n
            /\ \A i \in I : \A j \in (DOMAIN flat) \ I : flat[i] >= flat[j]}

\* line 913, flags.ravel()[idxs] = True: ravel() is a view of a row-major
\* array and a copy of any other, and a write to the copy is lost
ravel_assign(a, idxs) ==
    IF c_contiguous(a)
    THEN [a EXCEPT !.buf = [k \in DOMAIN a.buf |-> IF k \in idxs THEN 1 ELSE a.buf[k]]]
    ELSE a

\* line 915, impl.nonzero(flags): the set pixels in row-major order
nonzero(a) ==
    LET w == a.shape[2]
        q == SortedSeq({k \in 0..(numel(a) - 1) : at(a, k \div w, k % w) = 1})
    IN  [k \in 1..Len(q) |-> <<q[k] \div w, q[k] % w>>]

ProbLevels == {0, 1, 2}

ProbArrays ==
    UNION { { [shape |-> sh, order |-> o, buf |-> b] :
               b \in [1..(sh[1] * sh[2]) -> ProbLevels], o \in {"C", "F"} } : sh \in OpShapes }

ProbInit ==
    /\ NmsIdle
    /\ DetIdle
    /\ MaskIdle
    /\ OpIdle
    /\ sortkind = "stable"
    /\ probs \in ProbArrays
    /\ min_score \in {0, 1}
    /\ num_min \in {0, 1, 2, 3, default_num_min}
    /\ prob_flags = NoImage
    /\ dets = <<>>
    /\ ppc = "start"

\* line 901
ProbFlags ==
    /\ ppc = "start"
    /\ prob_flags' = greater(probs, min_score)
    /\ ppc' = "flags"
    /\ UNCHANGED <<probs, min_score, num_min, dets, nmsvars, detvars, maskvars, opvars, sortkind>>

\* lines 905-913, numpy arrays
ProbEnsure ==
    /\ ppc = "flags"
    /\ IF SeqSum(prob_flags.buf) < num_min
       THEN \E idxs \in argmaxima(probs, num_min) : prob_flags' = ravel_assign(prob_flags, idxs)
       ELSE prob_flags' = prob_flags
    /\ ppc' = "ensured"
    /\ UNCHANGED <<probs, min_score, num_min, dets, nmsvars, detvars, maskvars, opvars, sortkind>>

\* lines 915-935
ProbDets ==
    /\ ppc = "ensured"
    /\ dets' = [k \in DOMAIN nonzero(prob_flags) |->
                   [yc |-> nonzero(prob_flags)[k][1], xc |-> nonzero(prob_flags)[k][2],
                    score |-> at(probs, nonzero(prob_flags)[k][1], nonzero(prob_flags)[k][2])]]
    /\ ppc' = "done"
    /\ UNCHANGED <<probs, min_score, num_min, prob_flags, nmsvars, detvars, maskvars, opvars, sortkind>>

ProbNext == ProbFlags \/ ProbEnsure \/ ProbDets

SpecProb == ProbInit /\ [][ProbNext]_vars

(***************************************************************************)
(* Any of the NMS and conversion entry points may be called.               *)
(***************************************************************************)
Init == NmsInit \/ DetInit \/ MaskInit

Next == NmsNext \/ DetNext \/ MaskNext

Spec == Init /\ [][Next]_vars

(***************************************************************************)
(* Vocabulary of the Detections.non_max_supression properties.             *)
(***************************************************************************)
\* The option the caller gave in the daq dict, or the default.
CallerOption(k, default) ==
    IF call.daq = "dict" THEN dict_get(heap[1], k, default) ELSE default

\* The thresh of the suppression that was run.
EffectiveThresh == IF daqkw # 0 THEN CallerOption("thresh", call.thresh) ELSE call.thresh

DaqReturned == dpc = "done" /\ daqkw # 0

Kept == Range(ret)

Dropped == DOMAIN self_data.boxes \ Kept

SameClass(i, j) == self_data.class_idxs[i] = self_data.class_idxs[j]

Overlapping(i, j) == IoUAbove(self_data.boxes, default_bias, i, j, EffectiveThresh)

\* C6: with perclass = True a box is suppressed only by a kept box of its
\* own class: every box missing from the result overlaps, above thresh, a
\* kept box with the same class id.  Claimed for daq = False and for daq set.
C6_SuppressedBySameClassOnly ==
    (dpc = "done" /\ call.perclass) =>
        \A j \in Dropped : \E i \in Kept : SameClass(i, j) /\ Overlapping(i, j)

\* C7: a call changes neither the caller's boxes, scores and class ids nor
\* the caller's daq dict, and what it returns is a list of indices of boxes.
C7_InputsUnchanged ==
    [][ /\ np_tlbr' = np_tlbr
        /\ np_scores' = np_scores
        /\ self_data' = self_data
        /\ call' = call
        /\ call.daq = "dict" => heap'[1] = heap[1]
        /\ Range(keep') \subseteq DOMAIN np_tlbr
        /\ Range(ret') \subseteq DOMAIN self_data.boxes ]_vars

C7_Witness ==
    /\ DaqReturned
    /\ call.daq = "dict"
    /\ heap[daqkw] # heap[1]
    /\ DOMAIN heap[1] = {"stop_size"}
    /\ Len(ret) > 0

\* C8: DAQ NMS with stop_size above the number of boxes returns the kept
\* index set of greedy NMS on the same boxes, scores and thresh.
C8_DaqOnePartitionIsGreedy ==
    (DaqReturned /\ CallerOption("stop_size", default_stop_size) > NumDets) =>
        Kept = Range(py_nms(self_data.boxes, scores_arg, EffectiveThresh,
                            default_bias, sortkind))

C8_Witness ==
    /\ DaqReturned
    /\ CallerOption("stop_size", default_stop_size) > NumDets
    /\ NumDets >= 3
    /\ Dropped # {}
    /\ Len(ret) >= 2

Split ==
    /\ CallerOption("stop_size", default_stop_size) < NumDets
    /\ CallerOption("max_depth", default_max_depth) > 0

NoKeptPairOverlaps == \A i \in Kept : \A j \in Kept : i # j => ~Overlapping(i, j)

FirstQuadrant(i) ==
    LET t == self_data.boxes
        I == DOMAIN t
        cx2 == SetMin({x1(t, k) : k \in I}) + SetMax({x2(t, k) : k \in I})
        cy2 == SetMin({y1(t, k) : k \in I}) + SetMax({y2(t, k) : k \in I})
    IN  <<2 * x1(t, i) < cx2, 2 * y1(t, i) < cy2>>

SameRaster(a, b) ==
    /\ a.shape = b.shape
    /\ \A r \in 0..(a.shape[1] - 1) : \A c \in 0..(a.shape[2] - 1) : at(a, r, c) = at(b, r, c)

ConversionsDone == mpc = "done"

\* C10: for every mask and every pair of formats (format1, format2),
\* mask.toformat(format1).toformat(format2) decodes with to_c_mask to the
\* same raster as mask.toformat(format1), which is the raster of the mask;
\* neither conversion raises.  All-background and all-foreground masks are
\* among the masks.
C10_ToformatKeepsRaster ==
    /\ mpc # "raised"
    /\ ConversionsDone =>
          /\ SameRaster(img1, img2)
          /\ SameRaster(img1, mask.data)

\* an array RLE of a mask with both values, compressed into more characters
\* than it has runs, and decoded
C10_Witness ==
    /\ ConversionsDone
    /\ mask.format = F_MASK
    /\ mask1.format = ARRAY_RLE
    /\ mask2.format = BYTES_RLE
    /\ Len(mask1.data.counts) >= 3
    /\ Len(mask2.data.counts) > Len(mask1.data.counts)

(***************************************************************************)
(* Vocabulary of the properties of the Mask methods.                       *)
(***************************************************************************)
IsRle(m) == m.format \in {BYTES_RLE, ARRAY_RLE}

\* the integer counts of an RLE mask
CountsOf(m) == IF m.format = BYTES_RLE THEN rleFrString(m.data.counts) ELSE m.data.counts

Pixels(sh) == sh[1] * sh[2]

\* the last call was op and it returned a mask
Gave(op) == res.op = op /\ res.value.format # "raised"

\* the offset <<dx, dy>> and the canvas <<h, w>> asked of the last translate
AskedOffset ==
    IF Len(res.call.offset) = 1
    THEN <<res.call.offset[1], res.call.offset[1]>>
    ELSE res.call.offset

AskedDims ==
    IF res.call.output_dims = <<>> THEN shape(res.args[1]) ELSE res.call.output_dims

\* the rasters of the operand and of the result of the last call
SourceRaster == to_c_mask(res.args[1]).data

ResultRaster == to_c_mask(res.value).data

AllOf(a, v) == \A k \in DOMAIN a.buf : a.buf[k] = v

\* C11: the array RLE of a mask, compressed to bytes and decompressed, has
\* the counts it started with, and mask.to_array_rle().to_bytes_rle() has
\* the byte string of mask.to_bytes_rle().
C11_CompressRoundTrip ==
    res.op = "rle_doctest" =>
        /\ res.value.via.format = BYTES_RLE
        /\ res.value.direct.format = BYTES_RLE
        /\ res.value.via.data.counts = res.value.direct.data.counts
        /\ res.value.back.data.counts = res.value.array.data.counts

C11_Witness ==
    /\ res.op = "rle_doctest"
    /\ Len(res.value.array.data.counts) >= 4
    /\ Len(res.value.via.data.counts) > Len(res.value.array.data.counts)
    /\ res.value.back.data.counts = res.value.array.data.counts

\* the counts of the RLE m sum to the pixels of its shape and of its size
RleSumOk(m) ==
    IsRle(m) =>
        /\ SeqSum(CountsOf(m)) = Pixels(shape(m))
        /\ SeqSum(CountsOf(m)) = Pixels(m.data.size)

\* C12: every RLE that a sequence of to_array_rle, to_bytes_rle, translate,
\* union and intersection calls produces has counts that sum to H * W of
\* its own shape; the counts of the RLE that translate returns sum to the
\* area of the requested canvas.
C12_CountsSumToArea ==
    /\ \A k \in DOMAIN items : RleSumOk(items[k])
    /\ Gave("translate") => SeqSum(CountsOf(res.value)) = Pixels(AskedDims)

C12_Witness ==
    /\ Gave("to_bytes_rle")
    /\ res.args[1].format = ARRAY_RLE
    /\ shape(res.args[1]) = <<MaxRows + 1, 2>>
    /\ fg_total(res.args[1].data.counts) > 0
    /\ RleSumOk(res.value)

\* C13: translate by (dx, dy) onto a canvas of H' x W' returns a mask whose
\* raster T has T[r, c] = M[r - dy, c - dx] where that lies inside the
\* source M and 0 elsewhere; it does not raise, also when the canvas is
\* smaller than the source.
C13_TranslateShiftsPixels ==
    res.op = "translate" =>
        /\ res.value.format = ARRAY_RLE
        /\ ResultRaster.shape = AskedDims
        /\ \A r \in 0..(AskedDims[1] - 1) : \A c \in 0..(AskedDims[2] - 1) :
              LET r0 == r - AskedOffset[2]
                  c0 == c - AskedOffset[1]
                  inside == /\ r0 >= 0 /\ r0 < SourceRaster.shape[1]
                            /\ c0 >= 0 /\ c0 < SourceRaster.shape[2]
              IN  at(ResultRaster, r, c) = (IF inside THEN at(SourceRaster, r0, c0) ELSE 0)

\* a full mask of two columns moved up by one row onto a canvas of one row:
\* the run of each column is partly outside and keeps its inside part
C13_Witness ==
    /\ Gave("translate")
    /\ res.call.offset = <<0, -1>>
    /\ res.call.output_dims = <<1, MaxRows>>
    /\ shape(res.args[1]) = <<MaxRows, 2>>
    /\ AllOf(SourceRaster, 1)
    /\ fg_total(res.value.data.counts) = 2

\* C14: translate by (0, 0) onto the mask's own shape, given or omitted,
\* returns a mask with the raster of the input.
C14_TranslateIdentity ==
    (/\ res.op = "translate"
     /\ AskedOffset = <<0, 0>>
     /\ AskedDims = shape(res.args[1]))
        => /\ res.value.format = ARRAY_RLE
           /\ SameRaster(ResultRaster, SourceRaster)

C14_Witness ==
    /\ Gave("translate")
    /\ res.call.offset = <<0, 0>>
    /\ res.call.output_dims = <<>>
    /\ shape(res.args[1])[1] # shape(res.args[1])[2]
    /\ ~AllOf(SourceRaster, 0)
    /\ ~AllOf(SourceRaster, 1)

\* the offset moves the whole source off the canvas on some axis
OffCanvas ==
    \/ AskedOffset[1] >= AskedDims[2]
    \/ AskedOffset[1] <= -shape(res.args[1])[2]
    \/ AskedOffset[2] >= AskedDims[1]
    \/ AskedOffset[2] <= -shape(res.args[1])[1]

C16_BackgroundStaysBackground ==
    (res.op = "translate" /\ AllOf(SourceRaster, 0))
        => /\ res.value.format = ARRAY_RLE
           /\ res.value.data.shape = AskedDims
           /\ res.value.data.size = AskedDims
           /\ fg_total(res.value.data.counts) = 0
           /\ SeqSum(res.value.data.counts) = Pixels(AskedDims)

C16_Witness ==
    /\ Gave("translate")
    /\ AllOf(SourceRaster, 0)
    /\ res.call.offset = <<1, -2>>
    /\ res.call.output_dims = <<MaxRows + 1, 2>>
    /\ shape(res.args[1]) = <<1, 1>>
    /\ res.value.data.counts = <<2 * (MaxRows + 1)>>

\* C17: Mask.union, Mask.intersection and Masks.coerce on no mask at all
\* raise and return nothing.
C17_EmptyOperandsRaise ==
    (res.op \in {"union", "intersection", "coerce"} /\ Len(res.args) = 0)
        => res.value.format = "raised"

C17_Witness ==
    /\ res.op = "union"
    /\ res.args = <<>>
    /\ res.value.format = "raised"
    /\ res.value.data.error = "Exception"

ShapesDiffer == \E k \in DOMAIN res.args : shape(res.args[k]) # shape(res.args[1])

\* C18: Mask.union and Mask.intersection raise whenever two operands have
\* different shapes, whatever the formats of the operands.
C18_ShapeMismatchRaises ==
    (res.op \in {"union", "intersection"} /\ ShapesDiffer)
        => res.value.format = "raised"

\* C19: the union of a single mask, in any format, has the area of the
\* mask, which is the number of its foreground pixels, and its raster.
C19_UnionOfOneIsSame ==
    (res.op = "union" /\ Len(res.args) = 1) =>
        /\ IsRle(res.value) \/ res.value.format = C_MASK
        /\ area(res.value) = area(res.args[1])
        /\ area(res.value) = Cardinality({k \in DOMAIN SourceRaster.buf : SourceRaster.buf[k] = 1})
        /\ SameRaster(ResultRaster, SourceRaster)

C19_Witness ==
    /\ Gave("union")
    /\ Len(res.args) = 1
    /\ res.args[1].format = C_MASK
    /\ area(res.value) = 2
    /\ Pixels(shape(res.value)) = 4

\* C20: for masks A and B of one shape, A.iou(B) equals B.iou(A).
C20_IouSymmetric ==
    res.op = "iou" =>
        /\ ~IsError(res.value.ab)
        /\ ~IsError(res.value.ba)
        /\ res.value.ab.n * res.value.ba.d = res.value.ba.n * res.value.ab.d

C20_Witness ==
    /\ res.op = "iou"
    /\ area(res.args[1]) # area(res.args[2])
    /\ res.value.ab.n > 0
    /\ res.value.ab.n < res.value.ab.d
    /\ res.value.ba = res.value.ab

\* the foreground pixels of the raster a, as positions <<r, c>>
Foreground(a) ==
    {p \in (0..(a.shape[1] - 1)) \X (0..(a.shape[2] - 1)) : at(a, p[1], p[2]) = 1}

\* C21: for masks of one shape, Mask.iou is area(intersection) over
\* area(union), lies in [0, 1], and is 0 without an error when both masks
\* are all background.
C21_IouIsIntersectionOverUnion ==
    res.op = "iou" =>
        LET a == res.args[1]
            b == res.args[2]
            i == intersection(a, <<b>>)
            u == union(a, <<b>>, npbuild)
            fa == Foreground(to_c_mask(a).data)
            fb == Foreground(to_c_mask(b).data)
            v == res.value.ab
        IN  /\ ~IsError(v)
            /\ v.d > 0 /\ 0 <= v.n /\ v.n <= v.d
            /\ area(i) = Cardinality(fa \cap fb)
            /\ area(u) = Cardinality(fa \cup fb)
            /\ IF area(u) = 0 THEN v.n = 0 ELSE v.n * area(u) = area(i) * v.d

C21_Witness ==
    /\ res.op = "iou"
    /\ res.args[1].format = C_MASK
    /\ shape(res.args[1]) = <<MaxRows, 2>>
    /\ area(res.args[1]) = 0
    /\ area(res.args[2]) = 0
    /\ res.value.ab = [n |-> 0, d |-> 1]

\* C22: for a mask with a foreground pixel, in any format, get_xywh is the
\* tight box (min x, min y, width, height) of the foreground pixels of the
\* decoded raster.
C22_BboxIsTight ==
    (res.op = "get_xywh" /\ Foreground(SourceRaster) # {}) =>
        LET xs == {p[2] : p \in Foreground(SourceRaster)}
            ys == {p[1] : p \in Foreground(SourceRaster)}
        IN  res.value = <<SetMin(xs), SetMin(ys),
                          SetMax(xs) - SetMin(xs) + 1, SetMax(ys) - SetMin(ys) + 1>>

C22_Witness ==
    /\ res.op = "get_xywh"
    /\ res.args[1].format = ARRAY_RLE
    /\ shape(res.args[1]) = <<MaxRows, 2>>
    /\ res.value = <<1, MaxRows - 1, 1, 1>>

\* C23: toformat with a name that is not bytes_rle, array_rle, c_mask or
\* f_mask raises KeyError at once and returns no mask; the data and the
\* format of the receiver are as before.
C23_UnknownFormatRaises ==
    (res.op = "toformat" /\ res.call.format \notin {BYTES_RLE, ARRAY_RLE, C_MASK, F_MASK}) =>
        /\ res.value.format = "raised"
        /\ res.value.data.error = "KeyError"
        /\ ~res.shares
        /\ res.after = res.args
        /\ items = res.args
        /\ prog = <<>>

C23_Witness ==
    /\ res.op = "toformat"
    /\ res.call.format = "polygon"
    /\ res.args[1].format = ARRAY_RLE
    /\ area(res.args[1]) > 0
    /\ res.value = Raised("KeyError")
    /\ items = res.args

\* C24: the conversions, translate, union and intersection leave the data
\* and the format of the receiver and of every operand as they were; a
\* conversion to the mask's own format with copy=True returns a mask whose
\* data is another object than the receiver's data.
C24_OperandsUnchanged ==
    /\ res.op \in {"toformat", "to_array_rle", "to_bytes_rle", "translate", "union",
                   "intersection"}
          => res.after = res.args
    /\ (res.op = "toformat" /\ res.call.copy /\ res.call.format = res.args[1].format)
          => /\ ~res.shares
             /\ res.value = res.args[1]

\* to_c_mask of an array RLE, which pops 'size' from a dict
C24_Witness ==
    /\ res.op = "toformat"
    /\ res.call.format = C_MASK
    /\ res.args[1].format = ARRAY_RLE
    /\ res.value.format = C_MASK
    /\ "size" \in DOMAIN res.after[1].data
    /\ res.after = res.args

\* C25: Mask.from_mask with method='faster' returns a mask that decodes to
\* the raster of method='naive', for every binary submask, every integer xy
\* offset and every output shape.
C25_FasterMatchesNaive ==
    res.op = "from_mask" =>
        /\ res.value.faster.format = ARRAY_RLE
        /\ res.value.naive.format = ARRAY_RLE
        /\ to_c_mask(res.value.faster).data.shape = to_c_mask(res.value.naive).data.shape
        /\ SameRaster(to_c_mask(res.value.faster).data, to_c_mask(res.value.naive).data)

C25_Witness ==
    /\ res.op = "from_mask"
    /\ res.call.offset = <<1, -1>>
    /\ res.call.output_dims = <<MaxRows + 1, 2>>
    /\ shape(res.args[1]) = <<2, 2>>
    /\ area(res.args[1]) = 3
    /\ area(res.value.faster) = 1
    /\ area(res.value.naive) = 1

\* the widths and heights of the boxes of the receiver
BoxExtents ==
    {x2(self_data.boxes, i) - x1(self_data.boxes, i) : i \in DOMAIN self_data.boxes}
        \cup {y2(self_data.boxes, i) - y1(self_data.boxes, i) : i \in DOMAIN self_data.boxes}

\* C26: with daq set, the options handed to the DAQ routine are the caller's
\* options over the defaults stop_size = 2048, max_depth = 12, thresh and
\* impl of the call, and diameter = the largest width or height of a box
\* when the caller gave none; every option of the caller goes through with
\* the caller's value.
C26_DaqOptionsAreCallerOverDefaults ==
    DaqReturned =>
        LET kw == heap[daqkw]
            given == IF call.daq = "dict" THEN DOMAIN heap[1] ELSE {}
        IN  /\ DOMAIN kw = {"impl", "stop_size", "max_depth", "thresh", "diameter"} \cup given
            /\ \A k \in given : kw[k] = heap[1][k]
            /\ "stop_size" \notin given => kw["stop_size"] = 2048
            /\ "max_depth" \notin given => kw["max_depth"] = 12
            /\ "thresh" \notin given => kw["thresh"] = call.thresh
            /\ "impl" \notin given => kw["impl"] = call.impl
            /\ "diameter" \notin given =>
                  /\ kw["diameter"] \in BoxExtents
                  /\ \A d \in BoxExtents : d <= kw["diameter"]

C26_Witness ==
    /\ DaqReturned
    /\ call.daq = "dict"
    /\ heap[1] = [stop_size |-> 1, max_depth |-> 0]
    /\ NumDets >= 3
    /\ heap[daqkw]["stop_size"] = 1
    /\ heap[daqkw]["max_depth"] = 0
    /\ heap[daqkw]["diameter"] = 100
    /\ heap[daqkw]["thresh"] = call.thresh

\* the pixels of the probability map, and those strictly above min_score
ProbPixels == (0..(probs.shape[1] - 1)) \X (0..(probs.shape[2] - 1))

AboveMinScore == {p \in ProbPixels : at(probs, p[1], p[2]) > min_score}

\* C27: _prob_to_dets returns a detection for every pixel strictly above
\* min_score; when fewer than num_min pixels are above it, there are at
\* least min(num_min, H * W) detections; no pixel has two detections.
C27_DetsCoverThresholdAndMinimum ==
    ppc = "done" =>
        /\ \A p \in AboveMinScore : \E k \in DOMAIN dets : <<dets[k].yc, dets[k].xc>> = p
        /\ Cardinality(AboveMinScore) < num_min
              => Len(dets) >= Min(num_min, Cardinality(ProbPixels))
        /\ \A j \in DOMAIN dets : \A k \in DOMAIN dets :
              <<dets[j].yc, dets[j].xc>> = <<dets[k].yc, dets[k].xc>> => j = k

\* py_nms under a scheduler that keeps running the call: the loop body is
\* straight-line code, so a call that can take a step takes it.  Whether
\* the loop ends does not hang on the bias or the sort kind, which are
\* fixed, and the boxes of the strip are upright.
NmsLiveInit ==
    /\ NmsInit
    /\ bias = 0
    /\ sortkind = "stable"
    /\ \A i \in DOMAIN np_tlbr : np_tlbr[i] \in BoxPool => y1(np_tlbr, i) <= y2(np_tlbr, i)

SpecNmsLive == NmsLiveInit /\ [][NmsNext]_vars /\ WF_vars(NmsNext)

NoDuplicates(s) == \A j \in DOMAIN s : \A k \in DOMAIN s : s[j] = s[k] => j = k

\* at any point of the loop: at most N iterations were made, keep has no
\* duplicate and only indices of boxes, and it shares no index with the
\* candidates that are left
LoopBound ==
    /\ Len(visited) <= NBoxes
    /\ Len(keep) = Len(visited)
    /\ Len(keep) + Len(order) <= NBoxes
    /\ NoDuplicates(keep)
    /\ Range(keep) \subseteq DOMAIN np_tlbr
    /\ Range(keep) \cap Range(order) = {}
    /\ NBoxes = 0 /\ pc # "start" => pc = "done" /\ keep = <<>>

\* an iteration removes at least the head of the candidates
HeadRemoved ==
    pc = "loop" => /\ Len(order') < Len(order)
                   /\ Range(order') \subseteq Range(Tail(order))

\* C28: py_nms terminates after at most N iterations of its loop: every
\* iteration removes at least the head of the candidate order, every index
\* is appended to keep at most once and is an index of a box, and no box
\* gives no index.
C28_TerminatesWithinN == [][HeadRemoved]_vars /\ []LoopBound /\ <>(pc = "done")

C28_Witness ==
    /\ pc = "done"
    /\ NBoxes = MaxBoxes
    /\ Len(visited) = NBoxes
    /\ Len(keep) = NBoxes

AllUnionsNonZero ==
    \A i \in DOMAIN np_tlbr : \A j \in DOMAIN np_tlbr :
        i # j => union_term(np_tlbr, bias, i, j) # 0

\* inter / union <= th for a union that is not zero, on the exact quotient
IoUAtMost(t, b, i, j, th) ==
    IF union_term(t, b, i, j) > 0
    THEN inter(t, b, i, j) * th[2] <= th[1] * union_term(t, b, i, j)
    ELSE inter(t, b, i, j) * th[2] >= th[1] * union_term(t, b, i, j)

\* C29: when no two boxes have a zero union, any two indices in keep have
\* an IoU, computed with the bias of the call, of at most thresh; this
\* holds for the partial keep list at every point of the loop and for the
\* list that is returned.
C29_KeptPairsWithinThresh ==
    AllUnionsNonZero =>
        \A i \in Range(keep) : \A j \in Range(keep) :
            i # j => IoUAtMost(np_tlbr, bias, i, j, thresh)

\* two kept boxes that overlap, with an IoU of exactly thresh
C29_Witness ==
    /\ pc = "done"
    /\ AllUnionsNonZero
    /\ Len(keep) >= 2
    /\ \E i \in Range(keep) : \E j \in Range(keep) :
          i # j /\ IoUEquals(np_tlbr, bias, i, j, thresh) /\ inter(np_tlbr, bias, i, j) > 0

\* the position of the index i in the visiting order
VisitPos(i) ==
    CHOOSE k \in DOMAIN argsort_desc(np_scores, sortkind) :
        argsort_desc(np_scores, sortkind)[k] = i

\* C30: every index that py_nms does not return has a returned index before
\* it in the visiting order, with a score at least as high and an IoU with
\* it above thresh; the first box of the visiting order is always returned.
C30_DroppedHaveKeptSuppressor ==
    pc = "done" =>
        /\ \A j \in (DOMAIN np_tlbr) \ Range(keep) :
              \E i \in Range(keep) :
                  /\ VisitPos(i) < VisitPos(j)
                  /\ np_scores[i] >= np_scores[j]
                  /\ IoUAbove(np_tlbr, bias, i, j, thresh)
        /\ NBoxes > 0 => /\ Len(keep) > 0
                         /\ keep[1] = argsort_desc(np_scores, sortkind)[1]

\* a box dropped by the second kept box, which the first kept box let pass
C30_Witness ==
    /\ pc = "done"
    /\ Len(keep) >= 2
    /\ \E j \in (DOMAIN np_tlbr) \ Range(keep) :
          /\ ~IoUAbove(np_tlbr, bias, keep[1], j, thresh)
          /\ IoUAbove(np_tlbr, bias, keep[2], j, thresh)
          /\ VisitPos(keep[2]) < VisitPos(j)

====
